---- MODULE Spec2Model ----
(***************************************************************************)
(* generate_plot of src/plot_tool.py as a state machine.                   *)
(*                                                                         *)
(* A request is received (the frame pandas.read_csv built and the call's   *)
(* arguments), the first loop explodes list-of-records columns one column  *)
(* per step, the second loop decodes record columns one column per step,   *)
(* the y column is coerced, the chart is drawn and saved, and the value is *)
(* returned.  The only state that outlives a request is matplotlib's       *)
(* global list of open figures.                                            *)
(*                                                                         *)
(* Python values are tuples whose first component is the type tag:         *)
(*   <<"nan">>            float('nan'), pandas' missing value              *)
(*   <<"num", n>>         an int or float                                  *)
(*   <<"str", toks>>      a str, held as the sequence of its lexical tokens*)
(*   <<"list", items>>    a list                                           *)
(*   <<"dict", pairs>>    a dict, pairs = <<key, value>> in insertion order*)
(* A token is <<"p", c>> (one punctuation character), <<"n", n>> (a number *)
(* literal), <<"q", toks>> (a quoted string literal), <<"w", w>> (a bare   *)
(* one-letter word, which is no literal) or <<"c", toks>> (a # comment).   *)
(***************************************************************************)
EXTENDS Integers, Sequences, FiniteSets, TLC

\* ------------------------------------------------------------ Python values

NaN == <<"nan">>
Num(n) == <<"num", n>>
Str(toks) == <<"str", toks>>
List(items) == <<"list", items>>
Dict(pairs) == <<"dict", pairs>>

P(c) == <<"p", c>>
N(n) == <<"n", n>>
Q(toks) == <<"q", toks>>
W(w) == <<"w", w>>
C(toks) == <<"c", toks>>

IsNaN(v) == v[1] = "nan"
IsNum(v) == v[1] = "num"
IsStr(v) == v[1] = "str"
IsList(v) == v[1] = "list"
IsDict(v) == v[1] = "dict"

\* ord() of the characters the tokens are written with.
OrdP(c) ==
    CASE c = "[" -> 91 [] c = "]" -> 93 [] c = "{" -> 123 [] c = "}" -> 125
      [] c = "," -> 44 [] c = ":" -> 58

OrdW(w) ==
    CASE w = "A" -> 65 [] w = "B" -> 66 [] w = "a" -> 97 [] w = "b" -> 98
      [] w = "g" -> 103 [] w = "k" -> 107 [] w = "y" -> 121 [] w = "z" -> 122

RECURSIVE Digits(_)
Digits(n) == IF n < 10 THEN <<48 + n>> ELSE Digits(n \div 10) \o <<48 + (n % 10)>>

\* The characters of a str, as code points.
RECURSIVE Chars(_)
TokChars(t) ==
    CASE t[1] = "p" -> <<OrdP(t[2])>>
      [] t[1] = "n" -> Digits(t[2])
      [] t[1] = "w" -> <<OrdW(t[2])>>
      [] t[1] = "q" -> <<39>> \o Chars(t[2]) \o <<39>>
      [] t[1] = "c" -> <<35>> \o Chars(t[2])

Chars(toks) == IF toks = <<>> THEN <<>> ELSE TokChars(Head(toks)) \o Chars(Tail(toks))

\* str.startswith(c) and (c in str), for a one-character c.
startswith(s, c) == LET cs == Chars(s[2]) IN Len(cs) > 0 /\ cs[1] = OrdP(c)

contains(s, c) == \E i \in 1..Len(Chars(s[2])) : Chars(s[2])[i] = OrdP(c)

\* ------------------------------------------------------- ast.literal_eval

\* A parse result is <<ok, value, next token position>>.
ParseFail == <<FALSE, NaN, 0>>

IsP(t, c) == t[1] = "p" /\ t[2] = c

\* dict[key] = value: an existing key keeps its place, a new one goes last.
RECURSIVE DictSet(_, _, _)
DictSet(pairs, k, v) ==
    IF pairs = <<>> THEN << <<k, v>> >>
    ELSE IF Head(pairs)[1] = k THEN << <<k, v>> >> \o Tail(pairs)
    ELSE <<Head(pairs)>> \o DictSet(Tail(pairs), k, v)

\* The name a dict key literal gives: the dicts of the model are keyed by
\* quoted one-word strings, which become column names.
IsKeyTok(t) == t[1] = "q" /\ Len(t[2]) = 1 /\ t[2][1][1] = "w"

KeyName(t) == t[2][1][2]

RECURSIVE ParseValue(_, _), ParseItems(_, _, _), ParsePairs(_, _, _)
ParseValue(t, i) ==
    IF i > Len(t) THEN ParseFail
    ELSE IF t[i][1] = "n" THEN <<TRUE, Num(t[i][2]), i + 1>>
    ELSE IF t[i][1] = "q" THEN <<TRUE, Str(t[i][2]), i + 1>>
    ELSE IF IsP(t[i], "[") THEN
        IF i + 1 <= Len(t) /\ IsP(t[i + 1], "]") THEN <<TRUE, List(<<>>), i + 2>>
        ELSE ParseItems(t, i + 1, <<>>)
    ELSE IF IsP(t[i], "{") THEN
        IF i + 1 <= Len(t) /\ IsP(t[i + 1], "}") THEN <<TRUE, Dict(<<>>), i + 2>>
        ELSE ParsePairs(t, i + 1, <<>>)
    ELSE ParseFail

ParseItems(t, i, acc) ==
    LET r == ParseValue(t, i) IN
    IF ~r[1] \/ r[3] > Len(t) THEN ParseFail
    ELSE IF IsP(t[r[3]], "]") THEN <<TRUE, List(Append(acc, r[2])), r[3] + 1>>
    ELSE IF IsP(t[r[3]], ",") THEN ParseItems(t, r[3] + 1, Append(acc, r[2]))
    ELSE ParseFail

ParsePairs(t, i, acc) ==
    IF i + 1 > Len(t) \/ ~IsKeyTok(t[i]) \/ ~IsP(t[i + 1], ":") THEN ParseFail
    ELSE LET r == ParseValue(t, i + 2) IN
         IF ~r[1] \/ r[3] > Len(t) THEN ParseFail
         ELSE IF IsP(t[r[3]], "}")
              THEN <<TRUE, Dict(DictSet(acc, KeyName(t[i]), r[2])), r[3] + 1>>
         ELSE IF IsP(t[r[3]], ",")
              THEN ParsePairs(t, r[3] + 1, DictSet(acc, KeyName(t[i]), r[2]))
         ELSE ParseFail

\* Nothing but a comment follows position i - 1.
AtEnd(t, i) == i = Len(t) + 1 \/ (i = Len(t) /\ t[i][1] = "c")

\* ast.literal_eval(v): <<TRUE, value>>, or <<FALSE, NaN>> when it raises (v
\* is no str, or is not the text of one literal).
literal_eval(v) ==
    IF ~IsStr(v) THEN <<FALSE, NaN>>
    ELSE LET r == ParseValue(v[2], 1) IN
         IF r[1] /\ AtEnd(v[2], r[3]) THEN <<TRUE, r[2]>> ELSE <<FALSE, NaN>>

\* ------------------------------------------------------ pandas.DataFrame

\* A frame is [cols |-> the column names in order, rows |-> the rows in
\* order], a row being a function from the column names to values.
Range(s) == {s[i] : i \in DOMAIN s}

Frame(cols, rows) == [cols |-> cols, rows |-> rows]

NRows(df) == Len(df.rows)

\* col in data.columns
HasColumn(df, c) == c \in Range(df.cols)

\* data[col].dtype: what pandas infers from the cells, object as soon as one
\* cell is neither a number nor missing.
dtype(df, c) ==
    IF \E i \in 1..NRows(df) : ~IsNum(df.rows[i][c]) /\ ~IsNaN(df.rows[i][c])
    THEN "object" ELSE "float64"

\* The sample taken from the other end: data[col].dropna().iloc[-1].
LastNonMissing(df, c) ==
    LET idx == {i \in 1..Len(df.rows) : df.rows[i][c][1] # "nan"} IN
    IF idx = {} THEN <<FALSE, NaN>>
    ELSE <<TRUE, df.rows[CHOOSE i \in idx : \A j \in idx : i >= j][c]>>

\* data[col].dropna().iloc[0]: <<TRUE, the first non-missing cell>>, or
\* <<FALSE, NaN>> when iloc[0] raises IndexError.
FirstNonMissing(df, c) ==
    LET idx == {i \in 1..NRows(df) : ~IsNaN(df.rows[i][c])} IN
    IF idx = {} THEN <<FALSE, NaN>>
    ELSE <<TRUE, df.rows[CHOOSE i \in idx : \A j \in idx : i <= j][c]>>

\* The test of lines 72-76 on the sample.
IsListOfRecordsSample(sample) ==
    IsStr(sample) /\ startswith(sample, "[") /\ contains(sample, "{")

\* The test of line 103 on the sample.
IsRecordSample(sample) == IsStr(sample) /\ startswith(sample, "{")

\* A row as the dict row.to_dict() gives: its keys in order and its values.
RowDict(df, i) == [keys |-> df.cols, val |-> df.rows[i]]

\* new_row.setdefault(k, v): a column the row already has keeps its value.
SetDefault(rd, k, v) ==
    [keys |-> IF k \in Range(rd.keys) THEN rd.keys ELSE Append(rd.keys, k),
     val |-> [x \in DOMAIN rd.val \cup {k} |->
                IF x \in DOMAIN rd.val THEN rd.val[x] ELSE v]]

\* new_row[k] = v
SetKey(rd, k, v) ==
    [keys |-> IF k \in Range(rd.keys) THEN rd.keys ELSE Append(rd.keys, k),
     val |-> [x \in DOMAIN rd.val \cup {k} |-> IF x = k THEN v ELSE rd.val[x]]]

\* for k, v in item.items(): new_row[k] = v
RECURSIVE MergeFields(_, _)
MergeFields(rd, pairs) ==
    IF pairs = <<>> THEN rd
    ELSE MergeFields(SetKey(rd, Head(pairs)[1], Head(pairs)[2]), Tail(pairs))

\* The row emitted for one element of the list (lines 85-89).
NewRow(rd, item) == IF IsDict(item) THEN MergeFields(rd, item[2]) ELSE rd

\* The rows emitted for source row i (lines 81-93), each with the source row
\* and the element (0: the row itself) it comes from.
RowsOfItems(rd, i, items) ==
    [j \in 1..Len(items) |-> [row |-> NewRow(rd, items[j]), src |-> i, elem |-> j]]

ExpandRow(df, col, i) ==
    LET r == literal_eval(df.rows[i][col])
        rd == RowDict(df, i)
    IN  IF r[1] /\ IsList(r[2]) THEN RowsOfItems(rd, i, r[2][2])
        ELSE << [row |-> rd, src |-> i, elem |-> 0] >>

\* expanded_rows after the loop of line 80 has passed rows i..n.
RECURSIVE ExpandedRows(_, _, _)
ExpandedRows(df, col, i) ==
    IF i > NRows(df) THEN <<>>
    ELSE ExpandRow(df, col, i) \o ExpandedRows(df, col, i + 1)

\* pd.DataFrame(list of dicts): the columns are the keys in the order they
\* first appear, a row holds NaN where its dict has no such key.
RECURSIVE UnionKeys(_, _)
UnionKeys(acc, keys) ==
    IF keys = <<>> THEN acc
    ELSE UnionKeys(IF Head(keys) \in Range(acc) THEN acc ELSE Append(acc, Head(keys)),
                   Tail(keys))

RECURSIVE AllKeys(_, _)
AllKeys(acc, rds) ==
    IF rds = <<>> THEN acc ELSE AllKeys(UnionKeys(acc, Head(rds).keys), Tail(rds))

DataFrame(rds) ==
    LET cols == AllKeys(<<>>, rds) IN
    Frame(cols,
          [i \in 1..Len(rds) |->
              [c \in Range(cols) |->
                  IF c \in DOMAIN rds[i].val THEN rds[i].val[c] ELSE NaN]])

\* Lines 79-94: the frame with column col exploded.
Explode(df, col) ==
    LET ex == ExpandedRows(df, col, 1) IN
    DataFrame([i \in 1..Len(ex) |-> ex[i].row])

\* Line 104-106: the column after apply, <<TRUE, cells>>, or <<FALSE, ..>>
\* when the lambda raises on some cell (literal_eval of a cell that is no
\* literal), which leaves data[col] unassigned.
DecodeCell(v) == IF IsNaN(v) THEN <<TRUE, v>> ELSE literal_eval(v)

DecodeColumn(df, col) ==
    IF \A i \in 1..NRows(df) : DecodeCell(df.rows[i][col])[1]
    THEN <<TRUE, Frame(df.cols,
                  [i \in 1..NRows(df) |->
                      [df.rows[i] EXCEPT ![col] = DecodeCell(df.rows[i][col])[2]]])>>
    ELSE <<FALSE, df>>

\* pd.to_numeric(cell, errors="coerce"): a number stays, a str that is one
\* number literal converts, everything else becomes NaN.
to_numeric(v) ==
    IF IsNum(v) THEN v
    ELSE IF IsStr(v) /\ Len(v[2]) = 1 /\ v[2][1][1] = "n" THEN Num(v[2][1][2])
    ELSE NaN

\* seq restricted to the positions that satisfy Keep, order kept.
RECURSIVE SelectRows(_, _, _)
SelectRows(rows, Keep(_), i) ==
    IF i > Len(rows) THEN <<>>
    ELSE (IF Keep(rows[i]) THEN <<rows[i]>> ELSE <<>>) \o SelectRows(rows, Keep, i + 1)

\* Line 112 without line 113: the cells converted, no row dropped.
CoerceWithoutDrop(df, col) ==
    Frame(df.cols, [i \in 1..NRows(df) |-> [df.rows[i] EXCEPT ![col] = to_numeric(@)]])

\* Lines 112-113: data[y_col] = to_numeric(...); data = data.dropna(subset=[y_col]).
CoerceNumeric(df, col) ==
    LET conv == [i \in 1..NRows(df) |-> [df.rows[i] EXCEPT ![col] = to_numeric(@)]]
        Keep(r) == ~IsNaN(r[col])
    IN  Frame(df.cols, SelectRows(conv, Keep, 1))

\* data.empty: some axis has length 0.
IsEmpty(df) == NRows(df) = 0 \/ Len(df.cols) = 0

\* ------------------------------------------------------------ the chart

\* str.lower() on the letters plot_type is written with; plot_type is the
\* sequence of its characters.
LowerChar(c) ==
    CASE c = "L" -> "l" [] c = "I" -> "i" [] c = "N" -> "n" [] c = "E" -> "e"
      [] c = "B" -> "b" [] c = "A" -> "a" [] c = "R" -> "r" [] OTHER -> c

lower(s) == [i \in DOMAIN s |-> LowerChar(s[i])]

Line == <<"l", "i", "n", "e">>
Bar == <<"b", "a", "r">>
Scatter == <<"s", "c", "a", "t", "t", "e", "r">>

\* The branches of lines 122, 132 and 142.
SupportedKind(plot_type) == lower(plot_type) \in {Line, Bar, Scatter}

\* a < b for sequences of code points, as Python compares str.
RECURSIVE LexLess(_, _)
LexLess(a, b) ==
    IF b = <<>> THEN FALSE
    ELSE IF a = <<>> THEN TRUE
    ELSE IF Head(a) # Head(b) THEN Head(a) < Head(b)
    ELSE LexLess(Tail(a), Tail(b))

\* The order groupby(sort=True) gives group keys: numbers by value, then
\* strings as Python orders them.
KeyLess(a, b) ==
    IF IsNum(a) THEN (IsStr(b) \/ (IsNum(b) /\ a[2] < b[2]))
    ELSE IsStr(b) /\ LexLess(Chars(a[2]), Chars(b[2]))

RECURSIVE SortKeys(_)
SortKeys(S) ==
    IF S = {} THEN <<>>
    ELSE LET m == CHOOSE k \in S : \A o \in S \ {k} : KeyLess(k, o)
         IN  <<m>> \o SortKeys(S \ {m})

\* str(key), the label of a group's series.
Label(key) == IF IsStr(key) THEN key ELSE Str(<<N(key[2])>>)

NoLabel == Str(<<>>)

\* grp[x_col], grp[y_col]: the cells of the rows selected, in row order.
RECURSIVE Points(_, _, _, _, _)
Points(df, x, y, Keep(_), i) ==
    IF i > NRows(df) THEN <<>>
    ELSE (IF Keep(df.rows[i]) THEN << <<df.rows[i][x], df.rows[i][y]>> >> ELSE <<>>)
         \o Points(df, x, y, Keep, i + 1)

\* The keys of groupby(group_col, sort=False): in the order of first occurrence.
RECURSIVE FirstOccurrences(_, _, _, _)
FirstOccurrences(df, g, i, acc) ==
    IF i > NRows(df) THEN acc
    ELSE FirstOccurrences(df, g, i + 1,
             IF IsNaN(df.rows[i][g]) \/ df.rows[i][g] \in Range(acc) THEN acc
             ELSE Append(acc, df.rows[i][g]))

GroupKeysUnsorted(df, g) == FirstOccurrences(df, g, 1, <<>>)

\* The keys data.groupby(group_col) iterates over: the distinct non-missing
\* values of the column, sorted.
GroupKeys(df, g) ==
    SortKeys({df.rows[i][g] : i \in {j \in 1..NRows(df) : ~IsNaN(df.rows[j][g])}})

\* groupby hashes the values of the column: a list or a dict raises TypeError.
Hashable(df, g) == \A i \in 1..NRows(df) : ~IsList(df.rows[i][g]) /\ ~IsDict(df.rows[i][g])

\* Lines 122-153: <<"ok", the series drawn>>, or the exception raised.  A
\* series is <<label, points>>.
Grouped(df, g) == g # "" /\ HasColumn(df, g)

GroupSeries(df, x, y, g) ==
    LET keys == GroupKeys(df, g) IN
    [k \in 1..Len(keys) |->
        LET Keep(r) == r[g] = keys[k] IN <<Label(keys[k]), Points(df, x, y, Keep, 1)>>]

Draw(df, plot_type, x, y, g) ==
    IF ~SupportedKind(plot_type) THEN <<"ValueError", <<>>>>
    ELSE IF Grouped(df, g) THEN
        IF ~Hashable(df, g) THEN <<"TypeError", <<>>>>
        ELSE IF GroupKeys(df, g) # <<>> /\ ~(HasColumn(df, x) /\ HasColumn(df, y))
             THEN <<"KeyError", <<>>>>
        ELSE <<"ok", GroupSeries(df, x, y, g)>>
    ELSE IF ~(HasColumn(df, x) /\ HasColumn(df, y)) THEN <<"KeyError", <<>>>>
    ELSE LET Keep(r) == TRUE IN <<"ok", << <<NoLabel, Points(df, x, y, Keep, 1)>> >> >>

\* Image(data, format="png"): data is b"" (<<>>) or the bytes of the chart
\* saved, which stand for its kind and series.
Image(bytes) == [data |-> bytes, format |-> "png"]

EmptyImage == Image(<<>>)

Png(plot_type, series) == <<lower(plot_type), series>>

\* ------------------------------------------------------------ the inputs

\* Bounds of the model.
MaxRows == 2
MaxFigures == 2

\* The strings the cells are drawn from.
Key(w) == Q(<<W(w)>>)

\* "[{'b':1,'k':2},{'k':1}]"
RecordsBK == Str(<<P("["), P("{"), Key("b"), P(":"), N(1), P(","), Key("k"), P(":"), N(2),
                   P("}"), P(","), P("{"), Key("k"), P(":"), N(1), P("}"), P("]")>>)
\* "[7,{'b':'A'}]"
MixedList == Str(<<P("["), N(7), P(","), P("{"), Key("b"), P(":"), Q(<<W("A")>>), P("}"),
                   P("]")>>)
\* "[{'k':'B'}]"
RecordsK == Str(<<P("["), P("{"), Key("k"), P(":"), Q(<<W("B")>>), P("}"), P("]")>>)
\* "[]"
EmptyList == Str(<<P("["), P("]")>>)
\* "[]#{"
EmptyListNote == Str(<<P("["), P("]"), C(<<P("{")>>)>>)
\* "[{"
BrokenList == Str(<<P("["), P("{")>>)
\* "{'k':1}"
RecordK == Str(<<P("{"), Key("k"), P(":"), N(1), P("}")>>)
\* "{"
BrokenRecord == Str(<<P("{")>>)
\* "A", "B", "7"
WordA == Str(<<W("A")>>)
WordB == Str(<<W("B")>>)
Seven == Str(<<N(7)>>)

\* pd.read_csv gives a column of numbers (and NaN) when every cell reads as
\* a number, and a column of str (and NaN) otherwise.
IsNumericText(v) == IsNaN(v) \/ ~IsNaN(to_numeric(v))

TextColumns(cells, n) ==
    {c \in [1..n -> cells] : n = 0 \/ \E i \in 1..n : ~IsNumericText(c[i])}

NumericColumns(n) == [1..n -> {NaN, Num(2)}]

\* The frames of n rows with columns a and b.
FramesOver(colsA, colsB, n) ==
    {Frame(<<"a", "b">>,
           [i \in 1..n |-> [c \in {"a", "b"} |-> IF c = "a" THEN ca[i] ELSE cb[i]]]) :
        ca \in colsA, cb \in colsB}

Args(plot_type, x_col, y_col, group_col, backendOk) ==
    [plot_type |-> plot_type, x_col |-> x_col, y_col |-> y_col, group_col |-> group_col,
     backendOk |-> backendOk]

\* group_col "" stands for None (both are falsy at line 123); backendOk is
\* whether matplotlib's drawing and savefig calls of this request succeed.
Pie == <<"p", "i", "e">>

\* Every choice of columns with the line chart, with and without a failing
\* backend, and the other kinds with a choice of columns each.
WideArgs ==
    {Args(Line, x, y, g, ok) :
        x \in {"a", "z"}, y \in {"b", "k", "z"}, g \in {"", "a", "b", "k", "z"},
        ok \in BOOLEAN}
    \cup {Args(t, x, y, g, TRUE) :
            t \in {<<"B", "a", "r">>, Scatter, Pie},
            x \in {"a", "z"}, y \in {"b", "z"}, g \in {"", "k"}}

NarrowArgs ==
    {Args(Line, "a", "b", "k", TRUE), Args(Bar, "a", "k", "b", TRUE),
     Args(Scatter, "k", "b", "b", TRUE)}

\* Column a over every nested shape with a plain column b, and the reverse.
WideFrames ==
    UNION {FramesOver(TextColumns({RecordsBK, MixedList, EmptyList, EmptyListNote, BrokenList, NaN}, n),
                      TextColumns({RecordK, NaN}, n), n)
           \cup FramesOver(TextColumns({RecordsBK, NaN}, n),
                           TextColumns({RecordsK, RecordK, BrokenRecord, NaN}, n)
                               \cup NumericColumns(n), n) : n \in 0..MaxRows}

NarrowFrames ==
    UNION {FramesOver(TextColumns({RecordsBK, WordA}, n), TextColumns({WordB, Seven}, n), n) :
               n \in 0..MaxRows}

\* The requests: every frame with a few argument lists, and a few frames with
\* every argument list.
Requests == (WideFrames \X NarrowArgs) \cup (NarrowFrames \X WideArgs)

\* ------------------------------------------------------------- the state

VARIABLES
    pc,           \* where the request stands: idle, explode, decode, coerce, plot, done
    input,        \* the frame read_csv built (line 65), kept for reference
    args,         \* the arguments of the call
    data,         \* the local variable data
    loopCols,     \* the Index the running for loop iterates over
    ci,           \* the position of that loop in loopCols
    prev,         \* data before the last step
    last,         \* the last step: [step, col, tag]
    prov,         \* for each row the last explosion emitted: [src, elem]
    applied,      \* the strategy each loop applied to each column, in order
    ret,          \* the value returned
    stdout,       \* what the request printed: none, nodata or the exception
    raised,       \* the exception that leaves generate_plot, none when it returns
    openFigures   \* matplotlib's open figures

vars == <<pc, input, args, data, loopCols, ci, prev, last, prov, applied, ret, stdout,
          raised, openFigures>>

NoFrame == Frame(<<>>, <<>>)
NoArgs == Args(<<>>, "", "", "", TRUE)
NoStep == [step |-> "none", col |-> "", tag |-> ""]

Init ==
    /\ pc = "idle"
    /\ input = NoFrame
    /\ args = NoArgs
    /\ data = NoFrame
    /\ loopCols = <<>>
    /\ ci = 1
    /\ prev = NoFrame
    /\ last = NoStep
    /\ prov = <<>>
    /\ applied = <<>>
    /\ ret = EmptyImage
    /\ stdout = "none"
    /\ raised = "none"
    /\ openFigures = 0

\* generate_plot is called: line 65 has built the frame.
Receive ==
    /\ pc = "idle"
    /\ openFigures < MaxFigures
    /\ \E rq \in Requests :
        /\ input' = rq[1]
        /\ data' = rq[1]
        /\ args' = rq[2]
        /\ loopCols' = rq[1].cols
    /\ pc' = "explode"
    /\ ci' = 1
    /\ prev' = NoFrame
    /\ last' = NoStep
    /\ prov' = <<>>
    /\ applied' = <<>>
    /\ ret' = EmptyImage
    /\ stdout' = "none"
    /\ UNCHANGED <<raised, openFigures>>

\* The except clause of lines 168-170: whatever the exception, print it and
\* return Image(b""); nothing leaves the function.
Caught(exc) ==
    /\ pc' = "done"
    /\ ret' = EmptyImage
    /\ stdout' = exc
    /\ raised' = "none"

\* Where a for loop over loopCols goes after the column at ci: on to the next
\* column, or out of the loop; the first loop is followed by the second, over
\* the columns data then has.
AfterColumn(phase, after, df) ==
    IF ci < Len(loopCols)
    THEN pc' = phase /\ ci' = ci + 1 /\ loopCols' = loopCols
    ELSE /\ ci' = 1
         /\ IF phase = "explode" /\ df.cols # <<>>
            THEN pc' = "decode" /\ loopCols' = df.cols
            ELSE pc' = after /\ loopCols' = <<>>

\* Line 69 for a column the frame no longer has: data[col] raises KeyError
\* outside the inner try.
ExplodeKeyError ==
    /\ pc = "explode"
    /\ ~HasColumn(data, loopCols[ci])
    /\ Caught("KeyError")
    /\ prev' = data
    /\ last' = [step |-> "explode", col |-> loopCols[ci], tag |-> "KeyError"]
    /\ UNCHANGED <<input, args, data, loopCols, ci, prov, applied, openFigures>>

\* Lines 69-76: whether the first loop explodes the column.
ExplodesColumn(df, col) ==
    /\ dtype(df, col) = "object"
    /\ FirstNonMissing(df, col)[1]
    /\ IsListOfRecordsSample(FirstNonMissing(df, col)[2])

\* One pass of the loop of lines 68-96.
ExplodeColumn ==
    /\ pc = "explode"
    /\ HasColumn(data, loopCols[ci])
    /\ LET col == loopCols[ci]
           tag == IF ExplodesColumn(data, col) THEN "list_of_records" ELSE "scalar"
           df == IF ExplodesColumn(data, col) THEN Explode(data, col) ELSE data
           ex == ExpandedRows(data, col, 1)
       IN  /\ data' = df
           /\ prev' = data
           /\ last' = [step |-> "explode", col |-> col, tag |-> tag]
           /\ prov' = IF ExplodesColumn(data, col)
                      THEN [i \in 1..Len(ex) |-> [src |-> ex[i].src, elem |-> ex[i].elem]]
                      ELSE <<>>
           /\ applied' = Append(applied, <<"explode", col, tag>>)
           /\ AfterColumn("explode", "coerce", df)
    /\ UNCHANGED <<input, args, ret, stdout, raised, openFigures>>

\* Lines 100-103: whether the second loop decodes the column.
DecodesColumn(df, col) ==
    /\ dtype(df, col) = "object"
    /\ FirstNonMissing(df, col)[1]
    /\ IsRecordSample(FirstNonMissing(df, col)[2])

\* One pass of the loop of lines 99-108.
DecodeStep ==
    /\ pc = "decode"
    /\ LET col == loopCols[ci]
           tag == IF DecodesColumn(data, col) THEN "record" ELSE "scalar"
           df == IF DecodesColumn(data, col) THEN DecodeColumn(data, col)[2] ELSE data
       IN  /\ data' = df
           /\ prev' = data
           /\ last' = [step |-> "decode", col |-> col, tag |-> tag]
           /\ applied' = Append(applied, <<"decode", col, tag>>)
           /\ AfterColumn("decode", "coerce", df)
    /\ UNCHANGED <<input, args, prov, ret, stdout, raised, openFigures>>

\* Lines 111-113.
Coerce ==
    /\ pc = "coerce"
    /\ data' = IF HasColumn(data, args.y_col) THEN CoerceNumeric(data, args.y_col) ELSE data
    /\ prev' = data
    /\ last' = [step |-> "coerce", col |-> args.y_col,
                tag |-> IF HasColumn(data, args.y_col) THEN "numeric" ELSE "absent"]
    /\ pc' = "plot"
    /\ UNCHANGED <<input, args, loopCols, ci, prov, applied, ret, stdout, raised,
                   openFigures>>

\* Lines 116-118: nothing left to plot.
ReturnNoData ==
    /\ pc = "plot"
    /\ IsEmpty(data)
    /\ pc' = "done"
    /\ ret' = EmptyImage
    /\ stdout' = "nodata"
    /\ prev' = data
    /\ last' = [step |-> "plot", col |-> "", tag |-> "nodata"]
    /\ UNCHANGED <<input, args, data, loopCols, ci, prov, applied, raised, openFigures>>

\* What lines 120-161 raise, "ok" when nothing.
PlotOutcome(df, a) ==
    LET d == Draw(df, a.plot_type, a.x_col, a.y_col, a.group_col) IN
    IF d[1] # "ok" THEN d[1] ELSE IF ~a.backendOk THEN "BackendError" ELSE "ok"

\* Lines 120-166 when nothing raises: the figure is opened, drawn, saved,
\* closed, and its bytes are returned.
PlotChart ==
    /\ pc = "plot"
    /\ ~IsEmpty(data)
    /\ PlotOutcome(data, args) = "ok"
    /\ pc' = "done"
    /\ ret' = Image(Png(args.plot_type,
                        Draw(data, args.plot_type, args.x_col, args.y_col, args.group_col)[2]))
    /\ openFigures' = (openFigures + 1) - 1
    /\ prev' = data
    /\ last' = [step |-> "plot", col |-> "", tag |-> "chart"]
    /\ UNCHANGED <<input, args, data, loopCols, ci, prov, applied, stdout, raised>>

\* Lines 120-161 when something raises: the figure line 120 opened stays
\* open, since line 162 is not reached, and lines 168-170 return Image(b"").
PlotRaises ==
    /\ pc = "plot"
    /\ ~IsEmpty(data)
    /\ PlotOutcome(data, args) # "ok"
    /\ Caught(PlotOutcome(data, args))
    /\ openFigures' = openFigures + 1
    /\ prev' = data
    /\ last' = [step |-> "plot", col |-> "", tag |-> "raised"]
    /\ UNCHANGED <<input, args, data, loopCols, ci, prov, applied>>

\* The value reaches the caller; the locals of the call are gone.
Return ==
    /\ pc = "done"
    /\ pc' = "idle"
    /\ input' = NoFrame
    /\ args' = NoArgs
    /\ data' = NoFrame
    /\ loopCols' = <<>>
    /\ ci' = 1
    /\ prev' = NoFrame
    /\ last' = NoStep
    /\ prov' = <<>>
    /\ applied' = <<>>
    /\ ret' = EmptyImage
    /\ stdout' = "none"
    /\ UNCHANGED <<raised, openFigures>>

Next ==
    \/ Receive
    \/ ExplodeKeyError
    \/ ExplodeColumn
    \/ DecodeStep
    \/ Coerce
    \/ ReturnNoData
    \/ PlotChart
    \/ PlotRaises
    \/ Return

Spec == Init /\ [][Next]_vars

\* ------------------------------------------------------------ the claims

\* How the request ended, as its caller sees it.
Outcome == IF raised # "none" THEN <<"raise", raised>> ELSE <<"return", ret>>

Returned == pc = "done"

\* The number of elements the cell parses to, 0 when it parses to no list.
ElementCount(v) ==
    LET r == literal_eval(v) IN IF r[1] /\ IsList(r[2]) THEN Len(r[2][2]) ELSE 0

Max1(n) == IF n < 1 THEN 1 ELSE n

RECURSIVE SumMax1(_, _, _)
SumMax1(df, col, i) ==
    IF i > NRows(df) THEN 0 ELSE Max1(ElementCount(df.rows[i][col])) + SumMax1(df, col, i + 1)

JustExploded == last.step = "explode" /\ last.tag = "list_of_records"

\* C1: the explosion of a list-of-records column emits sum over the rows of
\* max(1, element count) rows: a row is never dropped.
C1_ExplosionRowCount == JustExploded => NRows(data) = SumMax1(prev, last.col, 1)

\* C2: an unsupported chart kind fails with a typed failure that reaches the
\* caller, whatever the table.
C2_UnsupportedKindRaises ==
    (Returned /\ ~SupportedKind(args.plot_type)) => Outcome = <<"raise", "ValueError">>

\* The request names a column the normalised table does not have, or a kind
\* the code does not draw.
AbsentColumn ==
    \/ ~HasColumn(data, args.x_col)
    \/ ~HasColumn(data, args.y_col)
    \/ (args.group_col # "" /\ ~HasColumn(data, args.group_col))

BadInput == AbsentColumn \/ ~SupportedKind(args.plot_type)

\* C3: a request with a bad input never ends like the explicit empty result,
\* here for the requests whose table has rows left.
C3_BadInputDistinctFromNoData ==
    (Returned /\ BadInput /\ ~IsEmpty(data)) => Outcome # <<"return", EmptyImage>>

\* C4: a request that names an absent x, y or group column produces no chart.
C4_AbsentColumnNoChart == (Returned /\ AbsentColumn) => ret = EmptyImage

\* The chart a request returned.
Charted == Returned /\ last.tag = "chart"

GroupedChart == Charted /\ Grouped(data, args.group_col)

SeriesOf(image) == image.data[2]

\* The distinct non-missing values of the group column, and the rows of each.
GroupValues == {data.rows[i][args.group_col] : i \in 1..NRows(data)} \ {NaN}

RowsOfGroup(v) == {i \in 1..NRows(data) : data.rows[i][args.group_col] = v}

\* The n-th smallest member of a set of row numbers.
Nth(S, n) == CHOOSE i \in S : Cardinality({j \in S : j < i}) = n - 1

\* The series a group is drawn as: its label and its rows' points in row order.
IsSeriesOfGroup(sr, v) ==
    /\ sr[1] = Label(v)
    /\ Len(sr[2]) = Cardinality(RowsOfGroup(v))
    /\ \A n \in 1..Len(sr[2]) :
          sr[2][n] = <<data.rows[Nth(RowsOfGroup(v), n)][args.x_col],
                       data.rows[Nth(RowsOfGroup(v), n)][args.y_col]>>

\* The row in which a group value first occurs.
FirstRow(v) == Nth(RowsOfGroup(v), 1)

JustDecoded == last.step = "decode" /\ last.tag = "record"

\* C6: every cell of a record column is decoded on its own: a cell that
\* parses holds its decoded value, a cell that does not keeps its raw value.
C6_CellsDecodedIndependently ==
    JustDecoded =>
        \A i \in 1..NRows(data) :
            data.rows[i][last.col] =
                IF literal_eval(prev.rows[i][last.col])[1]
                THEN literal_eval(prev.rows[i][last.col])[2]
                ELSE prev.rows[i][last.col]

\* The element row k of the exploded frame was emitted for.
ElementOf(k) == literal_eval(prev.rows[prov[k].src][last.col])[2][2][prov[k].elem]

FieldNames(item) == {item[2][n][1] : n \in 1..Len(item[2])}

\* C7: a row emitted for a record holds every field of the record with the
\* record's value, and the source row's value in every other column; a row
\* emitted for another element holds the source row's values.
C7_MergedFieldsWin ==
    JustExploded =>
        \A k \in 1..NRows(data) :
            prov[k].elem > 0 =>
                LET item == ElementOf(k)
                    src == prev.rows[prov[k].src]
                    fields == IF IsDict(item) THEN FieldNames(item) ELSE {}
                IN  /\ IsDict(item) =>
                          \A n \in 1..Len(item[2]) :
                              /\ HasColumn(data, item[2][n][1])
                              /\ data.rows[k][item[2][n][1]] = item[2][n][2]
                    /\ \A c \in Range(prev.cols) \ fields : data.rows[k][c] = src[c]

\* An explosion that emitted a row for a record one of whose fields replaced
\* a different value of the source row, and a row for an element that is no
\* record.
C7_Witness ==
    /\ JustExploded
    /\ \E k \in 1..NRows(data) :
          /\ prov[k].elem > 0
          /\ IsDict(ElementOf(k))
          /\ \E c \in FieldNames(ElementOf(k)) \cap Range(prev.cols) :
                data.rows[k][c] # prev.rows[prov[k].src][c]
    /\ \E k \in 1..NRows(data) : prov[k].elem > 0 /\ ~IsDict(ElementOf(k))

JustCoerced == last.step = "coerce"

\* The rows of the frame before coercion whose y cell converts to a number.
Convertible == {i \in 1..NRows(prev) : ~IsNaN(to_numeric(prev.rows[i][args.y_col]))}

\* C8: after the coercion the y cell of every row is a number, the rows left
\* are those whose y cell converts, in order and otherwise unchanged; with no
\* column y_col the step changes nothing and the request goes on.
C8_CoercionDropsUnconvertible ==
    JustCoerced =>
        IF HasColumn(prev, args.y_col)
        THEN /\ \A i \in 1..NRows(data) : IsNum(data.rows[i][args.y_col])
             /\ NRows(data) = Cardinality(Convertible)
             /\ \A n \in 1..NRows(data) :
                   \A c \in Range(prev.cols) \ {args.y_col} :
                       data.rows[n][c] = prev.rows[Nth(Convertible, n)][c]
             /\ data.cols = prev.cols
        ELSE data = prev /\ pc = "plot" /\ stdout = "none"

\* A coercion that dropped a row and kept a row whose y cell was a str.
C8_Witness ==
    /\ JustCoerced
    /\ HasColumn(prev, args.y_col)
    /\ 0 < NRows(data) /\ NRows(data) < NRows(prev)
    /\ \E i \in Convertible : IsStr(prev.rows[i][args.y_col])

\* The first non-missing cell of a column, found by going down the rows.
RECURSIVE SampleFrom(_, _, _)
SampleFrom(df, c, i) ==
    IF i > NRows(df) THEN NaN
    ELSE IF ~IsNaN(df.rows[i][c]) THEN df.rows[i][c]
    ELSE SampleFrom(df, c, i + 1)

\* The rule of the classification, on a sample.
Classify(sample) ==
    IF IsStr(sample) /\ Len(Chars(sample[2])) > 0 /\ Chars(sample[2])[1] = 91
       /\ 123 \in Range(Chars(sample[2]))
    THEN "list_of_records"
    ELSE IF IsStr(sample) /\ Len(Chars(sample[2])) > 0 /\ Chars(sample[2])[1] = 123
    THEN "record"
    ELSE "scalar"

\* The strategy the two loops applied to a column.
StrategyOf(c) ==
    IF \E n \in 1..Len(applied) : applied[n] = <<"explode", c, "list_of_records">>
    THEN "list_of_records"
    ELSE IF \E n \in 1..Len(applied) : applied[n] = <<"decode", c, "record">>
    THEN "record"
    ELSE "scalar"

Normalised == pc = "coerce"

\* No cell of the frame is the text of an empty list, the one cell whose row
\* an explosion drops.
NoEmptyListCell(df) ==
    \A i \in 1..NRows(df) : \A c \in Range(df.cols) :
        literal_eval(df.rows[i][c]) # <<TRUE, List(<<>>)>>

\* C9 as stated: the strategy applied to a column is the class of the first
\* non-missing value the column has in the input table. Stated for the
\* inputs on which no explosion drops a row, where rows are only multiplied
\* and merged.
C9_StrategyFromInputSample ==
    (Normalised /\ NoEmptyListCell(input)) =>
        \A c \in Range(input.cols) : StrategyOf(c) = Classify(SampleFrom(input, c, 1))

\* C9 as amended: the first loop explodes a column iff the first non-missing
\* value the column holds when the loop reaches it is a list-of-records
\* sample, the second loop decodes a column iff the first non-missing value it
\* holds after the explosions starts with the record marker; a column the
\* loop leaves alone is unchanged.
C9_StrategyFromCurrentSample ==
    /\ (last.step = "explode" /\ last.tag # "KeyError") =>
          /\ last.tag = (IF Classify(SampleFrom(prev, last.col, 1)) = "list_of_records"
                         THEN "list_of_records" ELSE "scalar")
          /\ last.tag = "scalar" => data = prev
    /\ last.step = "decode" =>
          /\ last.tag = (IF Classify(SampleFrom(prev, last.col, 1)) = "record"
                         THEN "record" ELSE "scalar")
          /\ last.tag = "scalar" => data = prev

\* A loop decides on a column of the input table otherwise than the column's
\* first non-missing input value would have it, the column holding cells of
\* another class than its sample.
C9_Witness ==
    /\ HasColumn(input, last.col)
    /\ \/ /\ last.step = "explode" /\ last.tag # "KeyError"
          /\ (last.tag = "list_of_records")
                 # (Classify(SampleFrom(input, last.col, 1)) = "list_of_records")
       \/ /\ last.step = "decode"
          /\ (last.tag = "record") # (Classify(SampleFrom(input, last.col, 1)) = "record")
    /\ \E i \in 1..NRows(prev) :
          /\ ~IsNaN(prev.rows[i][last.col])
          /\ Classify(prev.rows[i][last.col]) # Classify(SampleFrom(prev, last.col, 1))

\* C10: between requests no figure is open.
C10_NoFigureLeftOpen == pc = "idle" => openFigures = 0

====
